---------------------------- MODULE Spec2Model ----------------------------
(***************************************************************************)
(* Model of src/app.py: the rule-based advisory engine                     *)
(* (professional_tips), the level metrics computed from a decoded buffer,  *)
(* the JSON record store (save_or_update_record and its helpers), the      *)
(* upload pipeline of the Streamlit script, and two sessions saving        *)
(* concurrently.                                                           *)
(*                                                                         *)
(* Numbers.  TLC has integers only, so every real quantity is a scaled     *)
(* integer:                                                                *)
(*   - arguments of professional_tips: lufs, peak and crest in thousandths,*)
(*     dominant_freq and centroid in hundredths of a hertz, one digit more *)
(*     than the f-strings print (:.2f, :.1f);                              *)
(*   - samples of a decoded buffer: multiples of eps = 1e-12, so that      *)
(*     rms + eps and peak / (rms + eps) are exact comparisons of integers. *)
(* Strings the code parses or builds (email addresses, file names) are     *)
(* sequences of one-character strings.                                     *)
(***************************************************************************)
EXTENDS Integers, Sequences, FiniteSets, TLC

VARIABLES
    ms,         \* the arguments of the professional_tips call
    advice,     \* what professional_tips returned, or NoValue before the call
    buf,        \* the decoded mono buffer handed to the metric extraction
    metrics,    \* the level metrics extracted from buf, or NoValue
    store,      \* the content of user_data/all_feedbacks.json: a list of dicts
    backup,     \* the content of user_data/backup/all_feedbacks.json
    sheetRows,  \* number of rows appended to the Google sheet
    clock,      \* datetime.now(): number of timestamps handed out so far
    session,    \* st.session_state of the browser session being served
    ui,         \* what the last script run rendered (st.error / st.markdown)
    uploads,    \* names of the files in the uploads directory
    call,       \* arguments of the save_or_update_record call(s) under study
    tmpFile,    \* all_feedbacks.tmp.json: whether it exists, and its content
    pc,         \* per concurrent session: position inside save_or_update_record
    ldata       \* per concurrent session: its local variable `data`

vars == <<ms, advice, buf, metrics, store, backup, sheetRows, clock, session,
          ui, uploads, call, tmpFile, pc, ldata>>

\* None, for the variables that hold a dict or a tuple once set.
NoValue == [none |-> TRUE]

Abs(x) == IF x < 0 THEN -x ELSE x

(***************************************************************************)
(* professional_tips (src/app.py 184-243)                                  *)
(***************************************************************************)

\* Thresholds of the five rules, in the units of the arguments.
LufsHigh == -11500
LufsLow == -15500
PeakHigh == 980
PeakLow == 700
CrestLow == 3000
CrestHigh == 6000
DomLow == 8000
DomHigh == 300000
CentroidLow == 140000
CentroidHigh == 480000

\* f"{x:.2f}" of a value in thousandths (f"{x:.1f}" of one in hundredths): the
\* value rounded to one digit less, ties to even, as an integer.
FormatDrop1(v) ==
    LET q == Abs(v) \div 10
        r == Abs(v) % 10
        up == r > 5 \/ (r = 5 /\ q % 2 = 1)
        m == IF up THEN q + 1 ELSE q
    IN  IF v < 0 THEN -m ELSE m

\* One entry of `tips`: which f-string was appended and the number printed in it.
Tip(dim, variant, v) == [dim |-> dim, variant |-> variant, shown |-> FormatDrop1(v)]

MainLoudHigh == "Loudness is too high - possible distortion/volume reduction."
MainLoudLow == "Loudness is low - mix won't stand out compared to others."
MainPeakHigh == "High peak - risk of clipping/distortion."
MainCrestLow == "Mix is over-compressed - loss of dynamics."
MainBalanced == "Your mix is balanced and excellent! Keep it up."

\* The state of the three locals (main_tip, tips, explanation) after each block.
LufsBlock(lufs) ==
    IF lufs > LufsHigh
    THEN [main_tip |-> MainLoudHigh,
          tips |-> <<Tip("loudness", "high", lufs)>>,
          explanation |-> <<"lufs_high">>]
    ELSE IF lufs < LufsLow
    THEN [main_tip |-> MainLoudLow,
          tips |-> <<Tip("loudness", "low", lufs)>>,
          explanation |-> <<"lufs_low">>]
    ELSE [main_tip |-> "",
          tips |-> <<Tip("loudness", "healthy", lufs)>>,
          explanation |-> <<"lufs_normal">>]

\* Mutant: the peak rule overwrites an earlier main-tip candidate.
PeakBlockLastWins(s, peak) ==
    IF peak > PeakHigh
    THEN [main_tip |-> MainPeakHigh,
          tips |-> Append(s.tips, Tip("peak", "high", peak)),
          explanation |-> Append(s.explanation, "peak_high")]
    ELSE IF peak < PeakLow
    THEN [s EXCEPT !.tips = Append(@, Tip("peak", "low", peak)),
                   !.explanation = Append(@, "peak_low")]
    ELSE [s EXCEPT !.tips = Append(@, Tip("peak", "healthy", peak))]

PeakBlock(s, peak) ==
    IF peak > PeakHigh
    THEN [main_tip |-> IF s.main_tip = "" THEN MainPeakHigh ELSE s.main_tip,
          tips |-> Append(s.tips, Tip("peak", "high", peak)),
          explanation |-> Append(s.explanation, "peak_high")]
    ELSE IF peak < PeakLow
    THEN [s EXCEPT !.tips = Append(@, Tip("peak", "low", peak)),
                   !.explanation = Append(@, "peak_low")]
    ELSE [s EXCEPT !.tips = Append(@, Tip("peak", "healthy", peak))]

\* Mutant: the low-crest rule includes its threshold (<= for <).
CrestBlockInclusive(s, crest) ==
    IF crest <= CrestLow
    THEN [main_tip |-> IF s.main_tip = "" THEN MainCrestLow ELSE s.main_tip,
          tips |-> Append(s.tips, Tip("crest", "low", crest)),
          explanation |-> Append(s.explanation, "crest_low")]
    ELSE IF crest > CrestHigh
    THEN [s EXCEPT !.tips = Append(@, Tip("crest", "high", crest)),
                   !.explanation = Append(@, "crest_high")]
    ELSE [s EXCEPT !.tips = Append(@, Tip("crest", "healthy", crest))]

CrestBlock(s, crest) ==
    IF crest < CrestLow
    THEN [main_tip |-> IF s.main_tip = "" THEN MainCrestLow ELSE s.main_tip,
          tips |-> Append(s.tips, Tip("crest", "low", crest)),
          explanation |-> Append(s.explanation, "crest_low")]
    ELSE IF crest > CrestHigh
    THEN [s EXCEPT !.tips = Append(@, Tip("crest", "high", crest)),
                   !.explanation = Append(@, "crest_high")]
    ELSE [s EXCEPT !.tips = Append(@, Tip("crest", "healthy", crest))]

DominantBlock(s, dominant_freq) ==
    IF dominant_freq < DomLow
    THEN [s EXCEPT !.tips = Append(@, Tip("dominant", "low", dominant_freq)),
                   !.explanation = Append(@, "dominant_low")]
    ELSE IF dominant_freq > DomHigh
    THEN [s EXCEPT !.tips = Append(@, Tip("dominant", "high", dominant_freq)),
                   !.explanation = Append(@, "dominant_high")]
    ELSE [s EXCEPT !.tips = Append(@, Tip("dominant", "healthy", dominant_freq))]

CentroidBlock(s, centroid) ==
    IF centroid < CentroidLow
    THEN [s EXCEPT !.tips = Append(@, Tip("centroid", "low", centroid)),
                   !.explanation = Append(@, "centroid_low")]
    ELSE IF centroid > CentroidHigh
    THEN [s EXCEPT !.tips = Append(@, Tip("centroid", "high", centroid)),
                   !.explanation = Append(@, "centroid_high")]
    ELSE [s EXCEPT !.tips = Append(@, Tip("centroid", "healthy", centroid))]

DefaultMainTip(s) ==
    IF s.main_tip = "" THEN [s EXCEPT !.main_tip = MainBalanced] ELSE s

professional_tips(lufs, peak, crest, centroid, dominant_freq) ==
    DefaultMainTip(
        CentroidBlock(
            DominantBlock(
                CrestBlock(
                    PeakBlock(LufsBlock(lufs), peak),
                    crest),
                dominant_freq),
            centroid))


(***************************************************************************)
(* Metric extraction (src/app.py 316-321) on a buffer of integer samples,  *)
(* one unit = 1e-12.  rms = sqrt(sumsq / n) is irrational in general, so   *)
(* rms is kept as rms^2 = sumsq / n and every comparison with rms is done  *)
(* on squares.                                                             *)
(***************************************************************************)

\* eps = 1e-12, one sample unit.
Eps == 1

RECURSIVE SumSq(_)
SumSq(b) == IF b = <<>> THEN 0 ELSE Head(b) * Head(b) + SumSq(Tail(b))

\* np.max(np.abs(data_arr)) if data_arr.size > 0 else 0.0
PeakOf(b) ==
    IF b = <<>> THEN 0
    ELSE CHOOSE m \in {Abs(b[i]) : i \in DOMAIN b} :
            \A i \in DOMAIN b : Abs(b[i]) <= m

\* x >= rms, for rms^2 = s / n.
GeRms(x, s, n) == x >= 0 /\ x * x * n >= s
\* x <= rms.
LeRms(x, s, n) == x <= 0 \/ x * x * n <= s

\* c * (rms + eps) <= 100 * peak
CrestAtLeast(c, peak, s, n) ==
    \/ c = 0
    \/ /\ c > 0
       /\ 100 * peak - c * Eps >= 0
       /\ c * c * s <= (100 * peak - c * Eps) * (100 * peak - c * Eps) * n

\* Mutant: the ratio inverted, rms / (peak + eps).
crest_factor_inverted(peak, s, n) ==
    LET ok(k) == k * k * (peak + Eps) * (peak + Eps) * n <= 10000 * s
        c == CHOOSE k \in 0 .. 100 : ok(k) /\ ~ok(k + 1)
    IN  [finite |-> TRUE, centi |-> c,
         exact |-> c * c * (peak + Eps) * (peak + Eps) * n = 10000 * s]

\* crest_factor = float(peak / (rms + eps)), in hundredths rounded down, and
\* whether that is the exact quotient.  rms + eps > 0, so the quotient is finite.
crest_factor(peak, s, n) ==
    LET c == CHOOSE k \in 0 .. 100 * (peak + n) :
                 CrestAtLeast(k, peak, s, n) /\ ~CrestAtLeast(k + 1, peak, s, n)
        r == 100 * peak - c * Eps
    IN  [finite |-> TRUE, centi |-> c, exact |-> c * c * s = r * r * n]

RECURSIVE Pow10(_)
Pow10(k) == IF k = 0 THEN 1 ELSE 10 * Pow10(k - 1)

\* Largest decade the model's amplitudes can reach.
MaxDecade == 3

\* Mutant: the eps guard dropped, 20 * log10(rms): -inf for a silent buffer,
\* and one decade lower, -260 dB, for 0 < rms < 1 unit.
lufs_proxy_no_eps(s, n) ==
    IF s = 0 THEN [finite |-> FALSE, db |-> 0, exact |-> FALSE]
    ELSE IF s < n THEN [finite |-> TRUE, db |-> -260, exact |-> FALSE]
    ELSE LET k == CHOOSE d \in 0 .. MaxDecade :
                      /\ LeRms(Pow10(d), s, n)
                      /\ (d = MaxDecade \/ ~LeRms(Pow10(d + 1), s, n))
         IN  [finite |-> TRUE, db |-> 20 * k - 240,
              exact |-> Pow10(k) * Pow10(k) * n = s]

\* lufs = float(20 * np.log10(rms + eps)) in dB: 20 * (log10(units) - 12),
\* rounded down to a multiple of 20 dB, and whether it is exact (rms + eps
\* an exact power of ten).  rms + eps >= eps > 0, so the logarithm is finite.
lufs_proxy(s, n) ==
    LET k == CHOOSE d \in 0 .. MaxDecade :
                 /\ LeRms(Pow10(d) - Eps, s, n)
                 /\ (d = MaxDecade \/ ~LeRms(Pow10(d + 1) - Eps, s, n))
        x == Pow10(k) - Eps
    IN  [finite |-> TRUE, db |-> 20 * k - 240, exact |-> x * x * n = s]

\* Lines 316-321 for a non-empty buffer.
ExtractLevels(b) ==
    LET s == SumSq(b)
        n == Len(b)
        peak == PeakOf(b)
    IN  [rms_sq |-> [num |-> s, den |-> n],
         peak |-> peak,
         crest_factor |-> crest_factor(peak, s, n),
         lufs |-> lufs_proxy(s, n)]

(***************************************************************************)
(* Bounds and input sets                                                   *)
(***************************************************************************)

\* professional_tips is tried at every value within Near of a threshold.
Near == 1
AroundThresholds(lo, hi) ==
    (lo - Near .. lo + Near) \cup (hi - Near .. hi + Near) \cup {(lo + hi) \div 2}

MetricSets ==
    [lufs : AroundThresholds(LufsLow, LufsHigh),
     peak : AroundThresholds(PeakLow, PeakHigh),
     crest : AroundThresholds(CrestLow, CrestHigh),
     centroid : AroundThresholds(CentroidLow, CentroidHigh),
     dominant_freq : AroundThresholds(DomLow, DomHigh)]

\* Buffers of 1 .. MaxLen samples, each within -MaxAmp .. MaxAmp units.
MaxLen == 2
MaxAmp == 9
Buffers == UNION {[1 .. n -> -MaxAmp .. MaxAmp] : n \in 1 .. MaxLen}


(***************************************************************************)
(* Strings: email addresses and file names (src/app.py 81-87, 126-146)     *)
(***************************************************************************)

Letters == {"a", "b", "c", "d", "e", "f", "g", "h", "i", "j", "k", "l", "m",
            "n", "o", "p", "q", "r", "s", "t", "u", "v", "w", "x", "y", "z"}
DigitChars == <<"0", "1", "2", "3", "4", "5", "6", "7", "8", "9">>
IsDigit(c) == \E i \in DOMAIN DigitChars : DigitChars[i] = c
DigitValue(c) == (CHOOSE i \in DOMAIN DigitChars : DigitChars[i] = c) - 1
\* \w of the regular expressions, on the model's alphabet.
IsWord(c) == c \in Letters \/ IsDigit(c) \/ c = "_"

\* re.match(r"^[\w\.-]+@[\w\.-]+\.\w+$", email) is not None
is_valid_email(email) ==
    \E i, j \in DOMAIN email :
        /\ 1 < i /\ i + 1 < j /\ j < Len(email)
        /\ email[i] = "@" /\ email[j] = "."
        /\ \A k \in 1 .. i - 1 : IsWord(email[k]) \/ email[k] \in {".", "-"}
        /\ \A k \in i + 1 .. j - 1 : IsWord(email[k]) \/ email[k] \in {".", "-"}
        /\ \A k \in j + 1 .. Len(email) : IsWord(email[k])

\* re.sub(r'[^a-zA-Z0-9_\-\.]', '_', s)[:64]
safe_filename(s) ==
    LET t == [i \in DOMAIN s |->
                 IF s[i] \in Letters \/ IsDigit(s[i]) \/ s[i] \in {"_", "-", "."}
                 THEN s[i] ELSE "_"]
    IN  IF Len(t) > 64 THEN SubSeq(t, 1, 64) ELSE t

\* email.split("@")[0]
LocalPart(email) ==
    IF \E i \in DOMAIN email : email[i] = "@"
    THEN LET i == CHOOSE k \in DOMAIN email :
                      email[k] = "@" /\ \A m \in 1 .. k - 1 : email[m] # "@"
         IN  SubSeq(email, 1, i - 1)
    ELSE email

\* str(project_num)
RECURSIVE IntToStr(_)
IntToStr(n) ==
    IF n < 10 THEN <<DigitChars[n + 1]>>
    ELSE Append(IntToStr(n \div 10), DigitChars[(n % 10) + 1])

\* int(m.group(1))
RECURSIVE StrToInt(_)
StrToInt(ds) ==
    IF ds = <<>> THEN 0
    ELSE 10 * StrToInt(SubSeq(ds, 1, Len(ds) - 1)) + DigitValue(ds[Len(ds)])

ProjectMarker == <<"_", "_", "p", "r", "o", "j", "e", "c", "t", "_">>

\* f"{email_part}__project_{project_num}_{unique_id}{ext}"; unique_id is
\* uuid.uuid4().hex[:8], an input here.
build_project_filename(email, project_num, ext, unique_id) ==
    LET email_part == IF email # <<>> THEN safe_filename(LocalPart(email))
                      ELSE <<"a", "n", "o", "n">>
    IN  email_part \o ProjectMarker \o IntToStr(project_num) \o <<"_">>
            \o unique_id \o ext

\* Length of the run of digits of fname that starts at position p.
RECURSIVE DigitRun(_, _)
DigitRun(fname, p) ==
    IF p <= Len(fname) /\ IsDigit(fname[p]) THEN 1 + DigitRun(fname, p + 1) ELSE 0

MarkerAt(fname, i) ==
    /\ i + Len(ProjectMarker) - 1 <= Len(fname)
    /\ SubSeq(fname, i, i + Len(ProjectMarker) - 1) = ProjectMarker

\* re.search(r'__project_(\d+)\.', fname) matches at position i: the marker,
\* then one or more digits, then a dot.
ProjectMatchAt(fname, i) ==
    /\ MarkerAt(fname, i)
    /\ LET p == i + Len(ProjectMarker)
           n == DigitRun(fname, p)
       IN  n >= 1 /\ p + n <= Len(fname) /\ fname[p + n] = "."

\* int(m.group(1)) of the leftmost match, or 0 when re.search finds none.
ProjectNumberFound(fname) ==
    IF \E i \in DOMAIN fname : ProjectMatchAt(fname, i)
    THEN LET i == CHOOSE k \in DOMAIN fname :
                      ProjectMatchAt(fname, k)
                      /\ \A m \in 1 .. k - 1 : ~ProjectMatchAt(fname, m)
             p == i + Len(ProjectMarker)
         IN  StrToInt(SubSeq(fname, p, p + DigitRun(fname, p) - 1))
    ELSE 0

(***************************************************************************)
(* The record store (src/app.py 89-173).  A record is a dict: a function   *)
(* from keys to values.                                                    *)
(***************************************************************************)

Max(S) == CHOOSE m \in S : \A x \in S : x <= m

Has(rec, k, v) == k \in DOMAIN rec /\ rec[k] = v

\* dict.update
Update(old, new) ==
    [k \in DOMAIN old \cup DOMAIN new |-> IF k \in DOMAIN new THEN new[k] ELSE old[k]]

\* Mutant: the file hash left out of the comparison.
MatchesEmailOnly(rec, email, file_hash) == Has(rec, "email", email)

\* rec.get("email") == email and rec.get("file_hash") == file_hash
Matches(rec, email, file_hash) ==
    Has(rec, "email", email) /\ Has(rec, "file_hash", file_hash)

\* Index of the first match, or 0 for None.
find_record_index(data, email, file_hash) ==
    IF \E i \in DOMAIN data : Matches(data[i], email, file_hash)
    THEN CHOOSE i \in DOMAIN data :
             /\ Matches(data[i], email, file_hash)
             /\ \A j \in 1 .. i - 1 : ~Matches(data[j], email, file_hash)
    ELSE 0

get_next_project_number(data, email) ==
    LET found == {ProjectNumberFound(data[i].filename) :
                     i \in {j \in DOMAIN data :
                               /\ Has(data[j], "email", email)
                               /\ "filename" \in DOMAIN data[j]}}
    IN  Max(found \cup {0}) + 1

\* `if fh:` for fh = record.get("file_hash")
HashGiven(record) == "file_hash" \in DOMAIN record /\ record.file_hash # ""

\* The list save_or_update_record writes, for the list it loaded.
save_or_update_record(data, email, record, now_iso) ==
    LET idx == IF HashGiven(record)
               THEN find_record_index(data, email, record.file_hash)
               ELSE 0
    IN  IF idx = 0
        THEN Append(data,
                 Update(Update([email |-> email], record),
                        [created_at |-> now_iso, updated_at |-> now_iso]))
        ELSE [data EXCEPT ![idx] =
                 Update(Update(@, record), [updated_at |-> now_iso])]

\* gsheet_append_record: nothing when the sheet cannot be opened, else the row,
\* after the header row when the sheet is empty.
SheetAfter(rows, sheet_ok) ==
    IF ~sheet_ok THEN rows
    ELSE IF rows = 0 THEN 2 ELSE rows + 1


(***************************************************************************)
(* Inputs of the script: addresses typed at the gate, uploaded files       *)
(***************************************************************************)

EmailA == <<"a", "@", "x", ".", "i", "o">>
EmailB == <<"b", "@", "x", ".", "i", "o">>
EmailNoDot == <<"a", "@", "x">>
Emails == {EmailA, EmailB}
EmailInputs == Emails \cup {EmailNoDot}

ExtWav == <<".", "w", "a", "v">>
ExtMp3 == <<".", "m", "p", "3">>

\* uuid.uuid4().hex[:8]: hexadecimal digits, possibly all decimal (cut to two
\* characters here).
UniqueIds == {<<"4", "2">>, <<"c", "4">>}

\* An uploaded file: its sha1 prefix, its suffix, what sf.read makes of it
\* (decodable or not, the number of frames) and what lines 316-326 measure on
\* the decoded buffer, in the units of professional_tips.
FileHealthy ==
    [file_hash |-> "h1", ext |-> ExtWav, decodable |-> TRUE, frames |-> 2,
     duration |-> 2,
     measured |-> [lufs |-> -13000, peak |-> 850, crest |-> 4500,
                   centroid |-> 200000, dominant_freq |-> 20000]]
FileLoud ==
    [file_hash |-> "h2", ext |-> ExtMp3, decodable |-> TRUE, frames |-> 2,
     duration |-> 2,
     measured |-> [lufs |-> -8000, peak |-> 990, crest |-> 2000,
                   centroid |-> 200000, dominant_freq |-> 20000]]
FileSquashed ==
    [file_hash |-> "h3", ext |-> ExtWav, decodable |-> TRUE, frames |-> 2,
     duration |-> 2,
     measured |-> [lufs |-> -13000, peak |-> 500, crest |-> 2000,
                   centroid |-> 200000, dominant_freq |-> 20000]]
FileCorrupt ==
    [file_hash |-> "h4", ext |-> ExtWav, decodable |-> FALSE, frames |-> 0,
     duration |-> 0,
     measured |-> [lufs |-> 0, peak |-> 0, crest |-> 0,
                   centroid |-> 0, dominant_freq |-> 0]]
FileEmpty ==
    [file_hash |-> "h5", ext |-> ExtWav, decodable |-> TRUE, frames |-> 0,
     duration |-> 0,
     measured |-> [lufs |-> 0, peak |-> 0, crest |-> 0,
                   centroid |-> 0, dominant_freq |-> 0]]
Files == {FileHealthy, FileLoud, FileSquashed, FileCorrupt, FileEmpty}

\* Number of timestamps datetime.now() hands out in a run of the model.
MaxClock == 3

(***************************************************************************)
(* The script (src/app.py 247-437), one run per action                     *)
(***************************************************************************)

\* Mutant: the size check of lines 179-180 left out.
read_audio_no_size_check(f) == IF ~f.decodable THEN "DecodeError" ELSE "ok"

\* _read_audio_to_mono: "DecodeError" when sf.read raises, "EmptyAudio" for
\* the ValueError of line 180, "ok" when it returns the buffer.
read_audio_to_mono(f) ==
    IF ~f.decodable THEN "DecodeError"
    ELSE IF f.frames = 0 THEN "EmptyAudio"
    ELSE "ok"

\* Lines 299-311: the name the upload is stored under.
FinalName(data, email, f, unique_id) ==
    LET idx == find_record_index(data, email, f.file_hash)
    IN  IF idx # 0 /\ "filename" \in DOMAIN data[idx] /\ data[idx].filename # <<>>
        THEN data[idx].filename
        ELSE build_project_filename(email, get_next_project_number(data, email),
                                    f.ext, unique_id)

\* Lines 359-373.
AnalysisRecord(email, f, name, adv) ==
    [email |-> email, file_hash |-> f.file_hash, filename |-> name,
     duration |-> f.duration, lufs |-> f.measured.lufs, peak |-> f.measured.peak,
     crest_factor |-> f.measured.crest, centroid |-> f.measured.centroid,
     dominant_freq |-> f.measured.dominant_freq,
     main_tip |-> adv.main_tip, tips |-> adv.tips,
     genre |-> "", project_stage |-> "demo"]

\* Lines 420-433.
FeedbackPayload(email, file_hash, name) ==
    [email |-> email, file_hash |-> file_hash, filename |-> name,
     feedback_purpose |-> "Just checking", feedback_purpose_free |-> "",
     self_rating |-> 7, feedback_hardest |-> "", feedback_hardest_free |-> "",
     reference |-> "", q1 |-> "Yes", q2 |-> "", q3 |-> ""]

NoSession == [email_ok |-> FALSE, user_email |-> <<>>,
              current_file_hash |-> "", current_filename |-> <<>>]

\* A browser opens the page: a fresh st.session_state.
NewSession ==
    /\ session # NoSession
    /\ session' = NoSession
    /\ ui' = [kind |-> "gate"]
    /\ UNCHANGED <<ms, advice, buf, metrics, store, backup, sheetRows, clock,
                   uploads, call, tmpFile, pc, ldata>>

\* Lines 252-280: the email gate, "Continue" pressed with `email` typed.
Login(email, sheet_ok) ==
    /\ ~session.email_ok
    /\ IF is_valid_email(email)
       THEN /\ clock < MaxClock
            /\ session' = [session EXCEPT !.email_ok = TRUE, !.user_email = email]
            /\ store' = save_or_update_record(store, email, [email |-> email],
                                              clock + 1)
            /\ backup' = store'
            /\ sheetRows' = SheetAfter(sheetRows, sheet_ok)
            /\ clock' = clock + 1
            /\ ui' = [kind |-> "email_received"]
       ELSE /\ ui' = [kind |-> "invalid_email"]
            /\ UNCHANGED <<session, store, backup, sheetRows, clock>>
    /\ UNCHANGED <<ms, advice, buf, metrics, uploads, call, tmpFile, pc, ldata>>

\* Lines 286-437: a run of the script with file f in the uploader; `submit`
\* says whether "Submit feedback" was pressed in this run.
Upload(f, unique_id, submit, sheet_ok) ==
    /\ session.email_ok
    /\ clock + (IF submit THEN 2 ELSE 1) <= MaxClock
    /\ LET email == session.user_email
           name == FinalName(store, email, f, unique_id)
           adv == professional_tips(f.measured.lufs, f.measured.peak,
                      f.measured.crest, f.measured.centroid,
                      f.measured.dominant_freq)
           saved == save_or_update_record(store, email,
                        AnalysisRecord(email, f, name, adv), clock + 1)
       IN  /\ uploads' = uploads \cup {name}
           /\ IF read_audio_to_mono(f) # "ok"
              THEN /\ ui' = [kind |-> "error", cause |-> read_audio_to_mono(f)]
                   /\ UNCHANGED <<store, backup, sheetRows, clock, session>>
              ELSE /\ session' = [session EXCEPT !.current_file_hash = f.file_hash,
                                                 !.current_filename = name]
                   /\ IF submit
                      THEN /\ store' = save_or_update_record(saved, email,
                                           FeedbackPayload(email, f.file_hash, name),
                                           clock + 2)
                           /\ sheetRows' = SheetAfter(SheetAfter(sheetRows, sheet_ok),
                                                      sheet_ok)
                           /\ clock' = clock + 2
                           /\ ui' = [kind |-> "thanks", main_tip |-> adv.main_tip,
                                     tips |-> adv.tips]
                      ELSE /\ store' = saved
                           /\ sheetRows' = SheetAfter(sheetRows, sheet_ok)
                           /\ clock' = clock + 1
                           /\ ui' = [kind |-> "analysis", main_tip |-> adv.main_tip,
                                     tips |-> adv.tips]
                   /\ backup' = store'
    /\ UNCHANGED <<ms, advice, buf, metrics, call, tmpFile, pc, ldata>>

IdleTips == ms = NoValue /\ advice = NoValue
IdleExtract == buf = <<>> /\ metrics = NoValue
IdleStore == /\ store = <<>> /\ backup = <<>> /\ sheetRows = 0 /\ clock = 0
             /\ call = NoValue
IdleScript == session = NoSession /\ ui = [kind |-> "gate"] /\ uploads = {}
NoFile == [exists |-> FALSE, content |-> <<>>]
IdleConcurrent == tmpFile = NoFile /\ pc = <<>> /\ ldata = <<>>

Init == IdleTips /\ IdleExtract /\ IdleStore /\ IdleScript /\ IdleConcurrent

Next ==
    \/ NewSession
    \/ \E email \in EmailInputs, sheet_ok \in BOOLEAN : Login(email, sheet_ok)
    \/ \E f \in Files, unique_id \in UniqueIds, submit \in BOOLEAN,
          sheet_ok \in BOOLEAN :
            Upload(f, unique_id, submit, sheet_ok)

Spec == Init /\ [][Next]_vars


(***************************************************************************)
(* professional_tips on its own: the arguments are drawn at Init           *)
(***************************************************************************)

Advise ==
    /\ ms # NoValue /\ advice = NoValue
    /\ advice' = professional_tips(ms.lufs, ms.peak, ms.crest, ms.centroid,
                                   ms.dominant_freq)
    /\ UNCHANGED <<ms, buf, metrics, store, backup, sheetRows, clock, session,
                   ui, uploads, call, tmpFile, pc, ldata>>

InitTips ==
    /\ ms \in MetricSets /\ advice = NoValue
    /\ IdleExtract /\ IdleStore /\ IdleScript /\ IdleConcurrent

NextTips == Advise

SpecTips == InitTips /\ [][NextTips]_vars

(***************************************************************************)
(* The level metrics on their own: the buffer is drawn at Init             *)
(***************************************************************************)

Extract ==
    /\ buf # <<>> /\ metrics = NoValue
    /\ metrics' = ExtractLevels(buf)
    /\ UNCHANGED <<ms, advice, buf, store, backup, sheetRows, clock, session,
                   ui, uploads, call, tmpFile, pc, ldata>>

InitExtract ==
    /\ buf \in Buffers /\ metrics = NoValue
    /\ IdleTips /\ IdleStore /\ IdleScript /\ IdleConcurrent

NextExtract == Extract

SpecExtract == InitExtract /\ [][NextExtract]_vars

(***************************************************************************)
(* save_or_update_record on its own: any sequence of sequential calls with *)
(* the three kinds of record the script builds                             *)
(***************************************************************************)

GoodFiles == {FileHealthy, FileLoud}
FixedId == <<"c", "4">>

GateRecord(email) == [email |-> email]

SaveInputs(email) ==
    {GateRecord(email)}
    \cup {AnalysisRecord(email, f, FinalName(store, email, f, FixedId),
              professional_tips(f.measured.lufs, f.measured.peak, f.measured.crest,
                                f.measured.centroid, f.measured.dominant_freq)) :
            f \in GoodFiles}
    \cup {FeedbackPayload(email, f.file_hash, FinalName(store, email, f, FixedId)) :
            f \in GoodFiles}

SaveCall(email, record, sheet_ok) ==
    /\ clock < MaxClock
    /\ call' = [email |-> email, record |-> record]
    /\ store' = save_or_update_record(store, email, record, clock + 1)
    /\ backup' = store'
    /\ sheetRows' = SheetAfter(sheetRows, sheet_ok)
    /\ clock' = clock + 1
    /\ UNCHANGED <<ms, advice, buf, metrics, session, ui, uploads, tmpFile, pc,
                   ldata>>

NextStore ==
    \E email \in Emails, sheet_ok \in BOOLEAN :
        \E record \in SaveInputs(email) : SaveCall(email, record, sheet_ok)

SpecStore == Init /\ [][NextStore]_vars


(***************************************************************************)
(* Two sessions inside save_or_update_record at the same time.  Streamlit  *)
(* runs each session's script in a thread of its own and the code takes no *)
(* lock, so the steps of the two calls interleave freely.  Each step below *)
(* is one file operation of lines 149-169 (89-107 inlined).                *)
(***************************************************************************)

Sessions == {1, 2}

\* Both users passed the email gate earlier.
PriorStore ==
    <<[email |-> EmailA, created_at |-> 0, updated_at |-> 0],
      [email |-> EmailB, created_at |-> 0, updated_at |-> 0]>>

Jobs ==
    {[email |-> e,
      record |-> AnalysisRecord(e, f, FinalName(PriorStore, e, f, FixedId),
                     professional_tips(f.measured.lufs, f.measured.peak,
                         f.measured.crest, f.measured.centroid,
                         f.measured.dominant_freq))] :
        e \in Emails, f \in GoodFiles}

KeyOf(job) == <<job.email, job.record.file_hash>>

\* data = _load_records()
CLoad(s) ==
    /\ pc[s] = "start"
    /\ ldata' = [ldata EXCEPT ![s] = store]
    /\ pc' = [pc EXCEPT ![s] = "loaded"]
    /\ UNCHANGED <<ms, advice, buf, metrics, store, backup, sheetRows, clock,
                   session, ui, uploads, call, tmpFile>>

\* Lines 150-167: the search and the append or update, on the local list.
CModify(s) ==
    /\ pc[s] = "loaded"
    /\ ldata' = [ldata EXCEPT ![s] =
                    save_or_update_record(@, call[s].email, call[s].record,
                                          clock + 1)]
    /\ clock' = clock + 1
    /\ pc' = [pc EXCEPT ![s] = "modified"]
    /\ UNCHANGED <<ms, advice, buf, metrics, store, backup, sheetRows, session,
                   ui, uploads, call, tmpFile>>

\* _atomic_write_records, lines 100-102: json.dump into the one tmp path.
CWriteTmp(s) ==
    /\ pc[s] = "modified"
    /\ tmpFile' = [exists |-> TRUE, content |-> ldata[s]]
    /\ pc' = [pc EXCEPT ![s] = "written"]
    /\ UNCHANGED <<ms, advice, buf, metrics, store, backup, sheetRows, clock,
                   session, ui, uploads, call, ldata>>

\* os.replace(tmp_path, JSON_PATH): FileNotFoundError when the other session
\* has already moved the tmp file away.
CReplace(s) ==
    /\ pc[s] = "written"
    /\ IF tmpFile.exists
       THEN /\ store' = tmpFile.content
            /\ tmpFile' = NoFile
            /\ pc' = [pc EXCEPT ![s] = "replaced"]
       ELSE /\ pc' = [pc EXCEPT ![s] = "failed"]
            /\ UNCHANGED <<store, tmpFile>>
    /\ UNCHANGED <<ms, advice, buf, metrics, backup, sheetRows, clock, session,
                   ui, uploads, call, ldata>>

\* backup_json(), then gsheet_append_record(record): the call returns.
CFinish(s, sheet_ok) ==
    /\ pc[s] = "replaced"
    /\ backup' = store
    /\ sheetRows' = SheetAfter(sheetRows, sheet_ok)
    /\ pc' = [pc EXCEPT ![s] = "done"]
    /\ UNCHANGED <<ms, advice, buf, metrics, store, clock, session, ui, uploads,
                   call, tmpFile, ldata>>

InitConc ==
    /\ IdleTips /\ IdleExtract /\ IdleScript
    /\ store = PriorStore /\ backup = PriorStore /\ sheetRows = 0 /\ clock = 0
    /\ tmpFile = NoFile
    /\ pc = [s \in Sessions |-> "start"]
    /\ ldata = [s \in Sessions |-> <<>>]
    /\ call \in {c \in [Sessions -> Jobs] : KeyOf(c[1]) # KeyOf(c[2])}

NextConc ==
    \E s \in Sessions :
        \/ CLoad(s)
        \/ CModify(s)
        \/ CWriteTmp(s)
        \/ CReplace(s)
        \/ \E sheet_ok \in BOOLEAN : CFinish(s, sheet_ok)

SpecConc == InitConc /\ [][NextConc]_vars


(***************************************************************************)
(* Properties                                                              *)
(***************************************************************************)

Advised == advice # NoValue
Extracted == metrics # NoValue

\* C1: main_tip is chosen first-match-wins in the order loudness, peak, crest:
\* "too high" if lufs > -11.5, "low" if lufs < -15.5, else "high peak" if
\* peak > 0.98, else "over-compressed" if crest < 3, else the success message;
\* a low peak, a high crest, dominant_freq and centroid play no part.
C1_MainTipFirstMatch ==
    Advised =>
        advice.main_tip =
            IF ms.lufs > -11500 THEN MainLoudHigh
            ELSE IF ms.lufs < -15500 THEN MainLoudLow
            ELSE IF ms.peak > 980 THEN MainPeakHigh
            ELSE IF ms.crest < 3000 THEN MainCrestLow
            ELSE MainBalanced

\* C1 witness: loudness healthy, peak low (no candidate), crest low: the crest
\* rule is the first with a candidate.
C1_Witness ==
    /\ Advised
    /\ ms.lufs = -15500 /\ ms.peak = 699 /\ ms.crest = 2999
    /\ advice.main_tip = MainCrestLow

\* C2: professional_tips returns exactly 5 tips and exactly 5 explanations for
\* every metric set.
C2_FiveTipsFiveExplanations ==
    Advised => Len(advice.tips) = 5 /\ Len(advice.explanation) = 5

VariantOf(v, low, high) ==
    IF v < low THEN "low" ELSE IF v > high THEN "high" ELSE "healthy"

\* C3: tips holds one entry per dimension in the order loudness, peak, crest,
\* dominant frequency, centroid; each entry is the low variant iff its own
\* value is strictly below the low threshold, the high variant iff strictly
\* above the high threshold, the healthy variant otherwise (thresholds
\* included), and prints that value.
C3_TipsPerDimension ==
    Advised =>
        advice.tips =
            << [dim |-> "loudness", variant |-> VariantOf(ms.lufs, -15500, -11500),
                shown |-> FormatDrop1(ms.lufs)],
               [dim |-> "peak", variant |-> VariantOf(ms.peak, 700, 980),
                shown |-> FormatDrop1(ms.peak)],
               [dim |-> "crest", variant |-> VariantOf(ms.crest, 3000, 6000),
                shown |-> FormatDrop1(ms.crest)],
               [dim |-> "dominant",
                variant |-> VariantOf(ms.dominant_freq, 8000, 300000),
                shown |-> FormatDrop1(ms.dominant_freq)],
               [dim |-> "centroid",
                variant |-> VariantOf(ms.centroid, 140000, 480000),
                shown |-> FormatDrop1(ms.centroid)] >>

\* C3 witness: crest exactly on its low threshold is healthy while loudness
\* just below its low threshold is low and the centroid just above its high
\* threshold is high.
C3_Witness ==
    /\ Advised
    /\ ms.crest = 3000 /\ advice.tips[3].variant = "healthy"
    /\ ms.lufs = -15501 /\ advice.tips[1].variant = "low"
    /\ ms.centroid = 480001 /\ advice.tips[5].variant = "high"

LoadFails(f) == ~f.decodable \/ f.frames = 0

AnalysisKeys == {"duration", "lufs", "peak", "crest_factor", "centroid",
                 "dominant_freq", "main_tip", "tips"}

\* Every stored record that carries a file hash or any analysis field carries
\* all of them, and its main_tip and tips are those of its metrics.
AnalysisRecordsComplete(data) ==
    \A i \in DOMAIN data :
        (DOMAIN data[i] \cap (AnalysisKeys \cup {"file_hash"}) # {}) =>
            /\ AnalysisKeys \subseteq DOMAIN data[i]
            /\ LET r == data[i]
                   adv == professional_tips(r.lufs, r.peak, r.crest_factor,
                                            r.centroid, r.dominant_freq)
               IN  r.main_tip = adv.main_tip /\ r.tips = adv.tips

\* C4: a run whose upload cannot be loaded (undecodable, or zero samples)
\* renders the error and no advice and leaves the record store, its backup and
\* the sheet as they were; and whatever the run, every analysis record in the
\* store is complete.
C4_NoPartialSuccess ==
    [][ /\ \A f \in Files, unique_id \in UniqueIds, submit \in BOOLEAN,
             sheet_ok \in BOOLEAN :
               (LoadFails(f) /\ Upload(f, unique_id, submit, sheet_ok)) =>
                   /\ store' = store /\ backup' = backup
                   /\ sheetRows' = sheetRows
                   /\ ui'.kind = "error"
                   /\ "main_tip" \notin DOMAIN ui'
        /\ AnalysisRecordsComplete(store') ]_vars

\* C4 witness: the error of an empty decoded buffer is on screen while the
\* store still holds an earlier, complete analysis.
C4_Witness ==
    /\ ui.kind = "error" /\ ui.cause = "EmptyAudio"
    /\ \E i \in DOMAIN store : "main_tip" \in DOMAIN store[i]

\* C6: crest_factor >= 1 for every non-empty buffer with peak >= rms >= 0.
C6_CrestAtLeastOne ==
    (Extracted /\ GeRms(metrics.peak, metrics.rms_sq.num, metrics.rms_sq.den)) =>
        metrics.crest_factor.centi >= 100

\* C6 amended: crest_factor >= 1 for every non-empty buffer with
\* peak >= rms + eps.
C6_CrestAtLeastOneWithMargin ==
    (Extracted /\ GeRms(metrics.peak - 1, metrics.rms_sq.num, metrics.rms_sq.den))
        => (metrics.crest_factor.finite /\ metrics.crest_factor.centi >= 100)

\* C6 witness: a buffer whose peak exceeds its rms by more than eps.
C6_Witness ==
    /\ Extracted
    /\ buf = <<9, 0>>
    /\ GeRms(metrics.peak - 1, metrics.rms_sq.num, metrics.rms_sq.den)
    /\ metrics.crest_factor.centi >= 100

\* C7: for an all-zero buffer of length >= 1 the extraction yields rms = 0,
\* peak = 0, crest_factor = 0 and lufs_proxy = 20*log10(1e-12) = -240, all
\* finite.
C7_SilentBuffer ==
    (Extracted /\ \A i \in DOMAIN buf : buf[i] = 0) =>
        /\ metrics.rms_sq.num = 0
        /\ metrics.peak = 0
        /\ metrics.crest_factor = [finite |-> TRUE, centi |-> 0, exact |-> TRUE]
        /\ metrics.lufs = [finite |-> TRUE, db |-> -240, exact |-> TRUE]

\* C7 witness: two zero samples, extracted.
C7_Witness ==
    /\ Extracted
    /\ buf = <<0, 0>>
    /\ metrics.lufs.db = -240 /\ metrics.crest_factor.centi = 0

KeyMatch(rec, email, record) ==
    /\ HashGiven(record)
    /\ "email" \in DOMAIN rec /\ rec.email = email
    /\ "file_hash" \in DOMAIN rec /\ rec.file_hash = record.file_hash

UniqueKeys(data) ==
    \A i, j \in DOMAIN data :
        (i < j /\ HashGiven(data[i]) /\ "email" \in DOMAIN data[i]) =>
            ~KeyMatch(data[j], data[i].email, data[i])

\* C8: the store never holds two records with the same email and non-empty
\* file_hash; a call whose pair matches a stored record merges its fields into
\* that record in place, keeping created_at, the position, the number of
\* records and all other records; a call with no match appends one record.
C8_Upsert ==
    [][ clock' = clock + 1 =>
          LET e == call'.email
              r == call'.record
              hits == {i \in DOMAIN store : KeyMatch(store[i], e, r)}
          IN  /\ UniqueKeys(store')
              /\ Cardinality(hits) <= 1
              /\ \A i \in hits :
                    /\ Len(store') = Len(store)
                    /\ \A j \in DOMAIN store : j # i => store'[j] = store[j]
                    /\ \A k \in DOMAIN r : store'[i][k] = r[k]
                    /\ \A k \in DOMAIN store[i] \ (DOMAIN r \cup {"updated_at"}) :
                          store'[i][k] = store[i][k]
                    /\ store'[i].created_at = store[i].created_at
                    /\ store'[i].updated_at = clock'
              /\ hits = {} =>
                    /\ Len(store') = Len(store) + 1
                    /\ SubSeq(store', 1, Len(store)) = store
                    /\ \A k \in DOMAIN r : store'[Len(store')][k] = r[k]
                    /\ store'[Len(store')].created_at = clock' ]_vars

\* C8 witness: a feedback payload was merged into the analysis record of its
\* key, which kept its earlier created_at, beside another record.
C8_Witness ==
    /\ Len(store) >= 2
    /\ "record" \in DOMAIN call /\ "q1" \in DOMAIN call.record
    /\ \E i \in DOMAIN store :
          /\ "q1" \in DOMAIN store[i] /\ "main_tip" \in DOMAIN store[i]
          /\ store[i].created_at < store[i].updated_at

\* The project number build_project_filename wrote into fname: the digits
\* between the last "__project_" and the "_" before the unique id.
BuiltProjectNumber(fname) ==
    LET i == Max({k \in DOMAIN fname : MarkerAt(fname, k)})
        p == i + Len(ProjectMarker)
    IN  StrToInt(SubSeq(fname, p, p + DigitRun(fname, p) - 1))

BuiltNumbers(data, email) ==
    {BuiltProjectNumber(data[i].filename) :
        i \in {j \in DOMAIN data : /\ Has(data[j], "email", email)
                                   /\ "filename" \in DOMAIN data[j]}}

\* C9: get_next_project_number(email) is one more than the largest project
\* number in the filenames stored for that email, and no two records of one
\* email share a project number.
C9_NextProjectNumber ==
    \A e \in Emails :
        /\ get_next_project_number(store, e) = Max(BuiltNumbers(store, e) \cup {0}) + 1
        /\ \A i, j \in DOMAIN store :
              (/\ i < j
               /\ Has(store[i], "email", e) /\ Has(store[j], "email", e)
               /\ "filename" \in DOMAIN store[i] /\ "filename" \in DOMAIN store[j])
              => BuiltProjectNumber(store[i].filename)
                     # BuiltProjectNumber(store[j].filename)

Returned(s) == pc[s] \in {"done", "failed"}

\* C10: when both sessions' save_or_update_record calls are over, the store
\* holds both sessions' records and every record that was there before.
C10_NoLostRecord ==
    (\A s \in Sessions : Returned(s)) =>
        /\ \A s \in Sessions :
              \E i \in DOMAIN store : KeyMatch(store[i], call[s].email, call[s].record)
        /\ \A k \in DOMAIN PriorStore :
              \E i \in DOMAIN store : store[i].email = PriorStore[k].email
                                      /\ "file_hash" \notin DOMAIN store[i]

=============================================================================
